---- MODULE Spec2Model ----
(***************************************************************************)
(* The cross-ledger USDC transfer orchestrator of augurx_client:           *)
(*   transfer / unifiedTransfer   (utilities/gateway.ts, unified_transfer) *)
(*   depositToGateway             (utils/deposit)                          *)
(*   getVaultBalances / waitForGatewayBalance  (utils/vault_balances)      *)
(*                                                                         *)
(* One behaviour is one call of an exported function.  A step of the model *)
(* is the synchronous code between two awaits: it consumes the result of   *)
(* the awaited external call (drawn from a small set) and runs up to the   *)
(* next await, return or throw.                                            *)
(*                                                                         *)
(* JS numbers that hold USDC quantities (amount, available, required, the  *)
(* balances parsed from the API) are exact multiples of one tenth of the   *)
(* smallest USDC unit: the integer n stands for n / 10^(USDC_DECIMALS+1)   *)
(* USDC.  bigint quantities (transferValue, depositAmount, the ERC-20      *)
(* balance) are integers of smallest units, as in the code.  Binary        *)
(* floating-point rounding error is not modelled.                          *)
(***************************************************************************)
EXTENDS Integers, Sequences, FiniteSets, TLC

\* ------------------------------------------------------------- constants

USDC_DECIMALS == 6

MAX_FEE == 2010000

RECURSIVE Pow10(_)
Pow10(n) == IF n = 0 THEN 1 ELSE 10 * Pow10(n - 1)

\* Number units in one smallest USDC unit, and in one USDC.
SubUnits == Pow10(1)
OneUsdc == Pow10(USDC_DECIMALS) * SubUnits

\* The literal 0.01 of `required = amountFormatted + 0.01`.
FeeBuffer == OneUsdc \div 100

\* waitForGatewayBalance's defaults, which are also what unifiedTransfer passes.
DefaultPollIntervalMs == 30000
DefaultTimeoutMs == 25 * 60 * 1000

ARC_CHAIN == "arcTestnet"

\* Object.keys(chainConfigs)
validChains ==
    { "sepolia", "baseSepolia", "avalancheFuji", "arcTestnet",
      "hyperliquidEvmTestnet", "seiTestnet", "sonicTestnet", "worldchainSepolia" }

validEvmChains == validChains \ {ARC_CHAIN}

\* chainConfigs[c].domainId
domainId(c) ==
    CASE c = "sepolia" -> 0
      [] c = "baseSepolia" -> 6
      [] c = "avalancheFuji" -> 1
      [] c = "arcTestnet" -> 26
      [] c = "hyperliquidEvmTestnet" -> 19
      [] c = "seiTestnet" -> 16
      [] c = "sonicTestnet" -> 13
      [] c = "worldchainSepolia" -> 14

\* chainConfigs[c].usdcAddress
usdcAddress(c) ==
    CASE c = "sepolia" -> "0x1c7D4B196Cb0C7B01d743Fbc6116a902379C7238"
      [] c = "baseSepolia" -> "0x036CbD53842c5426634e7929541eC2318f3dCF7e"
      [] c = "avalancheFuji" -> "0x5425890298aed601595a70ab815c96711a31bc65"
      [] c = "arcTestnet" -> "0x3600000000000000000000000000000000000000"
      [] c = "hyperliquidEvmTestnet" -> "0x2B3370eE501B4a559b57D449569354196457D8Ab"
      [] c = "seiTestnet" -> "0x4fCF1784B31630811181f670Aea7A7bEF803eaED"
      [] c = "sonicTestnet" -> "0x0BA304580ee7c9a980CF72e55f5Ed2E9fd30Bc51"
      [] c = "worldchainSepolia" -> "0x66145f38cBAC35Ca6F1Dfb4914dF98F1614aeA88"

GATEWAY_WALLET_ADDRESS == "0x0077777d7EBA4688BDeF3E311b846F25870A19B9"
GATEWAY_MINTER_ADDRESS == "0x0022222ABE238Cc2C7Bb1f21003F0a260052475B"
ZeroAddress == "0x0000000000000000000000000000000000000000"

\* wallet.address
account == "0xAccount"

\* ------------------------------------------------------------ arithmetic

\* Math.round(num / den), den > 0: the nearest integer, halves towards +Infinity.
MathRound(num, den) == (2 * num + den) \div (2 * den)

\* Math.ceil(num / den), den > 0.
MathCeil(num, den) == -((-num) \div den)

\* A JS number: [kind |-> "finite", v |-> n] is n number units; the kinds "NaN",
\* "Infinity" and "-Infinity" are the non-finite numbers (v unused).
Num(n) == [kind |-> "finite", v |-> n]
NonFiniteNum(k) == [kind |-> k, v |-> 0]

\* Number.isFinite(amount)
IsFinite(amount) == amount.kind = "finite"

\* amount <= 0 (false for NaN, as every comparison with NaN is)
NonPositive(amount) ==
    \/ amount.kind = "-Infinity"
    \/ amount.kind = "finite" /\ amount.v <= 0

\* Number units in 10 ** -d USDC (d <= USDC_DECIMALS + 1): multiplying a number
\* by 10 ** d is dividing its count of number units by this.
UnitsPer(d) == OneUsdc \div Pow10(d)

\* Faulty variant of TransferValueOf: the product is truncated, not rounded.
TransferValueTruncated(amount) == amount.v \div UnitsPer(USDC_DECIMALS)

\* BigInt(Math.round(amount * 10 ** USDC_DECIMALS)), amount finite
TransferValueOf(amount) == MathRound(amount.v, UnitsPer(USDC_DECIMALS))

\* Number(ethers.formatUnits(v, USDC_DECIMALS))
FormatUnits(v) == v * UnitsPer(USDC_DECIMALS)

\* required = amountFormatted + 0.01
RequiredOf(value) == FormatUnits(value) + FeeBuffer

\* BigInt(Math.ceil(required * 10 ** 6))
DepositAmountOf(req) == MathCeil(req, UnitsPer(6))

\* ------------------------------------------------------------------ errors

\* An Error: its kind (the message template or the library error's class), and
\* the values the message or the error object carries.
Err(kind, status, body, chain, cause, bal, code) ==
    [ kind |-> kind, status |-> status, body |-> body, chain |-> chain,
      cause |-> cause, balance |-> bal, code |-> code ]

NoErr == Err("none", 0, "", "", "none", 0, "undefined")

SimpleErr(kind) == Err(kind, 0, "", "", "none", 0, "undefined")

\* --------------------------------------------------- vault balance queries

\* A response of POST /v1/balances. kind: "networkError" (fetch rejects),
\* "invalidJson" (res.json() rejects) or "json"; status: the HTTP status;
\* hasArray: whether the body has a balances array; balances: its elements.
BalancesResponse(kind, status, hasArray, balances) ==
    [kind |-> kind, status |-> status, hasArray |-> hasArray, balances |-> balances]

\* Faulty variant of ResponseOk: redirects and errors pass for success.
ResponseOkAbove200(status) == status >= 200

\* res.ok
ResponseOk(status) == status >= 200 /\ status <= 299

\* domainToChain.get(b.domain) ?? `Domain ${b.domain}`, over the requested chains
ChainOfDomain(chains, d) ==
    IF \E i \in 1..Len(chains) : domainId(chains[i]) = d
    THEN LET i == CHOOSE j \in 1..Len(chains) :
                      /\ domainId(chains[j]) = d
                      /\ \A k \in (j + 1)..Len(chains) : domainId(chains[k]) # d
         IN chains[i]
    ELSE "Domain N"

\* getVaultBalances({chains}): [err, entries]; err.kind = "none" when it returns.
getVaultBalances(chains, r) ==
    IF r.kind = "networkError"
    THEN [err |-> SimpleErr("FetchFailed"), entries |-> <<>>]
    ELSE IF r.kind = "invalidJson"
    THEN [err |-> SimpleErr("InvalidJson"), entries |-> <<>>]
    ELSE IF ~ResponseOk(r.status)
    THEN [err |-> Err("GatewayApi", r.status, "", "", "none", 0, "undefined"),
          entries |-> <<>>]
    ELSE IF ~r.hasArray
    THEN [err |-> SimpleErr("NoBalancesArray"), entries |-> <<>>]
    ELSE [err |-> NoErr,
          entries |-> [i \in 1..Len(r.balances) |->
                         [chain |-> ChainOfDomain(chains, r.balances[i].domain),
                          balance |-> r.balances[i].balance]]]

\* entries.find((e) => e.chain === chain)?.balance ?? 0
EntryBalance(entries, chain) ==
    IF \E i \in 1..Len(entries) : entries[i].chain = chain
    THEN LET i == CHOOSE j \in 1..Len(entries) :
                      /\ entries[j].chain = chain
                      /\ \A k \in 1..(j - 1) : entries[k].chain # chain
         IN entries[i].balance
    ELSE 0

\* Faulty variant of BalanceSufficient: a balance equal to the threshold does not count.
BalanceStrictlyAbove(bal, requiredBalance) == bal > requiredBalance

\* balance >= requiredBalance
BalanceSufficient(bal, requiredBalance) == bal >= requiredBalance

\* Faulty variant of TimedOut: the deadline itself is still within the window.
TimedOutStrictly(elapsedMs, timeoutMs) == elapsedMs > timeoutMs

\* elapsed >= timeoutMs
TimedOut(elapsedMs, timeoutMs) == elapsedMs >= timeoutMs

\* const { pollIntervalMs = 30_000, timeoutMs = 25 * 60 * 1000 } = options;
\* an option is <<>> (undefined) or <<v>>.
OptionOr(opt, default) == IF opt = <<>> THEN default ELSE opt[1]

\* ------------------------------------------------------------------ state

VARIABLES
    entry,      \* the exported function this behaviour calls
    options,    \* its argument: GatewayTransferOptions, or the waiter's options
    pc,         \* the await the call is suspended at, or "done"
    outcome,    \* of the returned promise: "pending", "resolved", "rejected"
    err,        \* the rejection's Error (NoErr while none)
    ut,         \* unifiedTransfer's locals
    dep,        \* depositToGateway's parameters and locals
    wait,       \* waitForGatewayBalance's parameters and locals
    intent,     \* the burn intent built by createBurnIntent
    trace       \* the external interactions so far, oldest first

vars == <<entry, options, pc, outcome, err, ut, dep, wait, intent, trace>>

\* ---------------------------------------------------------- sampled inputs

\* n hundredths of a USDC, in number units.
Cents(n) == n * (OneUsdc \div 100)

\* amount: invalid ones, 0.0000004 (rounds to 0 units), 0.5, 1, and 1.0000004 and
\* 1.0000006, which round to 1000000 and 1000001 smallest units.
AmountSamples ==
    { NonFiniteNum("NaN"), NonFiniteNum("Infinity"), NonFiniteNum("-Infinity"),
      Num(-OneUsdc), Num(0), Num(4), Num(Cents(50)), Num(OneUsdc),
      Num(OneUsdc + 4), Num(OneUsdc + 6) }

ChainSamples == validChains \cup {"unknownChain"}

\* Every chain key in both directions with amount 1, and every sampled amount on
\* one EVM chain, on Arc and on an unknown key.
TransferRequests ==
    [isEvmToArc : BOOLEAN, chainToTransfer : ChainSamples, amount : {Num(OneUsdc)}]
    \cup [isEvmToArc : BOOLEAN,
          chainToTransfer : {"baseSepolia", ARC_CHAIN, "unknownChain"},
          amount : AmountSamples]

\* Balances the API reports: 0.5, 1.01, 1.02 USDC.
BalanceSamples == {Cents(50), Cents(101), Cents(102)}

\* Responses of POST /v1/balances to a query for `chains`.
BalancesResponses(chains) ==
    { BalancesResponse("networkError", 0, FALSE, <<>>),
      BalancesResponse("invalidJson", 500, FALSE, <<>>),
      BalancesResponse("json", 500, FALSE, <<>>),
      BalancesResponse("json", 200, FALSE, <<>>),
      BalancesResponse("json", 200, TRUE, <<>>) }
    \cup { BalancesResponse("json", 200, TRUE,
                            <<[domain |-> domainId(chains[1]), balance |-> b]>>) :
           b \in BalanceSamples }

\* Direct calls of waitForGatewayBalance: threshold 1.01 on one chain, short
\* intervals and timeouts, and either option left out.
WaitCalls ==
    [chain : {"baseSepolia"}, requiredBalance : {Cents(101)},
     pollIntervalMs : {<<2>>, <<3>>}, timeoutMs : {<<0>>, <<4>>, <<5>>}]
    \cup [chain : {"baseSepolia"}, requiredBalance : {Cents(101)},
          pollIntervalMs : {<<>>}, timeoutMs : {<<0>>}]
    \cup [chain : {"baseSepolia"}, requiredBalance : {Cents(101)},
          pollIntervalMs : {<<750000>>}, timeoutMs : {<<>>}]

\* Direct calls of depositToGateway: batches of up to two chains, 1 USDC each.
DepositCalls ==
    [chains : {<<>>, <<"baseSepolia">>, <<"sepolia", "baseSepolia">>},
     amount : {Pow10(USDC_DECIMALS)}]

\* How long one balance query takes (ms). Direct calls of the waiter sample it;
\* within a transfer the query is taken as instantaneous.
QueryDurations == IF entry = "waitForGatewayBalance" THEN {0, 1, 2} ELSE {0}

\* How late setTimeout fires (ms).
TimerLateness == IF entry = "waitForGatewayBalance" THEN {0, 1} ELSE {0}

\* ------------------------------------------------------------ initial state

\* A response of POST /v1/transfer. kind: "networkError" (fetch rejects),
\* "invalidJson" (response.json() rejects) or "json"; status: the HTTP status;
\* body: the text of the body; attestation, signature: the fields of the JSON
\* body, "undefined" when it lacks them.
TransferResponse(kind, status, body, attestation, signature) ==
    [ kind |-> kind, status |-> status, body |-> body,
      attestation |-> attestation, signature |-> signature ]

NoResponse == TransferResponse("none", 0, "", "undefined", "undefined")

\* balanceRes, before the fetch of step 1 settled.
NoBalancesResponse == BalancesResponse("none", 0, FALSE, <<>>)

\* balanceRes: the settled fetch of step 1; body: the JSON posted in step 3;
\* response: the settled fetch of step 3; caught: the err of step 4's catch.
NoUt ==
    [ transferValue |-> 0, sourceChain |-> "", destChain |-> "", available |-> 0,
      required |-> 0, balanceRes |-> NoBalancesResponse, signature |-> "",
      body |-> <<>>, response |-> NoResponse,
      attestation |-> "", operatorSig |-> "", mintTx |-> "", caught |-> NoErr ]

\* approved, deposited: the amounts handed to approve and to deposit on the
\* current chain.
NoDep ==
    [ chains |-> <<>>, amount |-> 0, idx |-> 0, balance |-> 0, approved |-> 0,
      deposited |-> 0, receipts |-> <<>> ]

NoWait ==
    [ chain |-> "", requiredBalance |-> 0, pollIntervalMs |-> 0, timeoutMs |-> 0,
      clock |-> 0, elapsed |-> 0, balance |-> 0 ]

NoIntent ==
    [ maxBlockHeight |-> "", maxFee |-> 0,
      spec |-> [ version |-> 0, sourceDomain |-> 0, destinationDomain |-> 0,
                 sourceContract |-> "", destinationContract |-> "",
                 sourceToken |-> "", destinationToken |-> "",
                 sourceDepositor |-> "", destinationRecipient |-> "",
                 sourceSigner |-> "", destinationCaller |-> "",
                 value |-> 0, salt |-> "", hookData |-> "" ] ]

Init ==
    /\ \/ /\ entry = "unifiedTransfer"
          /\ options \in TransferRequests
       \/ /\ entry = "waitForGatewayBalance"
          /\ options \in WaitCalls
       \/ /\ entry = "depositToGateway"
          /\ options \in DepositCalls
    /\ pc = "start"
    /\ outcome = "pending"
    /\ err = NoErr
    /\ ut = NoUt
    /\ dep = NoDep
    /\ wait = NoWait
    /\ intent = NoIntent
    /\ trace = <<>>

\* ------------------------------------------------------ control fragments

Goto(p, tr) ==
    /\ pc' = p
    /\ outcome' = outcome
    /\ err' = err
    /\ trace' = tr

\* The promise of the called function resolves.
Resolve(tr) ==
    /\ pc' = "done"
    /\ outcome' = "resolved"
    /\ err' = err
    /\ trace' = tr

\* An Error leaves the called function: its promise rejects with it.
Reject(e, tr) ==
    /\ pc' = "done"
    /\ outcome' = "rejected"
    /\ err' = e
    /\ trace' = tr

\* ------------------------------------------------------ createBurnIntent

\* randomBytes(32): two of the 2^256 values.
Salts == {"salt1", "salt2"}

\* recipientAddress ?? depositorAddress; the optional argument is <<>> or <<a>>.
createBurnIntent(sourceChain, destChain, transferValue, depositorAddress, recipientAddress, salt) ==
    [ maxBlockHeight |-> "MaxUint256",
      maxFee |-> MAX_FEE,
      spec |-> [ version |-> 1,
                 sourceDomain |-> domainId(sourceChain),
                 destinationDomain |-> domainId(destChain),
                 sourceContract |-> GATEWAY_WALLET_ADDRESS,
                 destinationContract |-> GATEWAY_MINTER_ADDRESS,
                 sourceToken |-> usdcAddress(sourceChain),
                 destinationToken |-> usdcAddress(destChain),
                 sourceDepositor |-> depositorAddress,
                 destinationRecipient |-> OptionOr(recipientAddress, depositorAddress),
                 sourceSigner |-> depositorAddress,
                 destinationCaller |-> ZeroAddress,
                 value |-> transferValue,
                 salt |-> salt,
                 hookData |-> "0x" ] ]

\* Faulty variant of BeginBurnIntent: the intent is signed twice.
BeginBurnIntentSignsTwice(tr) ==
    \E salt \in Salts :
        /\ intent' = createBurnIntent(ut.sourceChain, ut.destChain,
                                      ut.transferValue, account, <<>>, salt)
        /\ Goto("signTypedData",
                tr \o <<"createBurnIntent", "signTypedData", "signTypedData">>)

\* unifiedTransfer, step 2: build the intent and call wallet.signTypedData.
BeginBurnIntent(tr) ==
    \E salt \in Salts :
        /\ intent' = createBurnIntent(ut.sourceChain, ut.destChain,
                                      ut.transferValue, account, <<>>, salt)
        /\ Goto("signTypedData", tr \o <<"createBurnIntent", "signTypedData">>)

\* ------------------------------------------------- waitForGatewayBalance

\* Faulty variant of RecoveryThrow: the catch swallows the Error.
RecoveryThrowSwallowed(e, tr) == Resolve(tr)

\* The catch around the deposit and the wait in unifiedTransfer wraps the Error;
\* a direct call of the function lets it through.
RecoveryThrow(e, tr) ==
    IF entry = "unifiedTransfer"
    THEN Reject(Err("FailedToDeposit", e.status, e.body, ut.sourceChain, e.kind,
                    e.balance, "undefined"), tr)
    ELSE Reject(e, tr)

\* Faulty variant of WaitCall: the deadline is looked at before the first query.
WaitCallDeadlineFirst(chain, requiredBalance, pollIntervalMs, timeoutMs, tr) ==
    /\ wait' = [ chain |-> chain, requiredBalance |-> requiredBalance,
                 pollIntervalMs |-> OptionOr(pollIntervalMs, DefaultPollIntervalMs),
                 timeoutMs |-> OptionOr(timeoutMs, DefaultTimeoutMs),
                 clock |-> 0, elapsed |-> 0, balance |-> 0 ]
    /\ IF TimedOut(0, OptionOr(timeoutMs, DefaultTimeoutMs))
       THEN RecoveryThrow(Err("Timeout", 0, "", chain, "none", 0, "undefined"),
                          tr \o <<"waitForGatewayBalance">>)
       ELSE Goto("poll", tr \o <<"waitForGatewayBalance", "poll">>)

\* The call: destructure the options, take the start time, issue the first query.
WaitCall(chain, requiredBalance, pollIntervalMs, timeoutMs, tr) ==
    /\ wait' = [ chain |-> chain, requiredBalance |-> requiredBalance,
                 pollIntervalMs |-> OptionOr(pollIntervalMs, DefaultPollIntervalMs),
                 timeoutMs |-> OptionOr(timeoutMs, DefaultTimeoutMs),
                 clock |-> 0, elapsed |-> 0, balance |-> 0 ]
    /\ Goto("poll", tr \o <<"waitForGatewayBalance", "poll">>)

WaitForGatewayBalanceStart ==
    /\ entry = "waitForGatewayBalance"
    /\ pc = "start"
    /\ WaitCall(options.chain, options.requiredBalance, options.pollIntervalMs,
                options.timeoutMs, trace)
    /\ UNCHANGED <<entry, options, ut, dep, intent>>

\* Faulty variant of WaitPoll: a failed query is noted and the loop goes on.
WaitPollRetriesOnError ==
    /\ pc = "poll"
    /\ \E d \in QueryDurations, r \in BalancesResponses(<<wait.chain>>) :
        LET res == getVaultBalances(<<wait.chain>>, r)
            bal == EntryBalance(res.entries, wait.chain)
            now == wait.clock + d
        IN  IF res.err.kind # "none"
            THEN /\ wait' = [wait EXCEPT !.clock = now]
                 /\ pc' = "sleep"
                 /\ outcome' = outcome
                 /\ err' = res.err
                 /\ trace' = trace \o <<"sleep">>
                 /\ UNCHANGED intent
            ELSE IF BalanceSufficient(bal, wait.requiredBalance)
            THEN IF entry = "unifiedTransfer"
                 THEN /\ wait' = NoWait
                      /\ BeginBurnIntent(trace \o <<"waitForGatewayBalance:return">>)
                 ELSE /\ wait' = [wait EXCEPT !.clock = now, !.balance = bal]
                      /\ Resolve(trace \o <<"waitForGatewayBalance:return">>)
                      /\ UNCHANGED intent
            ELSE IF TimedOut(now, wait.timeoutMs)
            THEN /\ wait' = [wait EXCEPT !.clock = now, !.balance = bal,
                                          !.elapsed = now]
                 /\ RecoveryThrow(Err("Timeout", 0, "", wait.chain, "none", bal,
                                      "undefined"), trace)
                 /\ UNCHANGED intent
            ELSE /\ wait' = [wait EXCEPT !.clock = now, !.balance = bal,
                                          !.elapsed = now]
                 /\ Goto("sleep", trace \o <<"sleep">>)
                 /\ UNCHANGED intent
    /\ UNCHANGED <<entry, options, ut, dep>>

\* The awaited getVaultBalances settles, d ms after it was issued.  On return to
\* unifiedTransfer the waiter's frame is dropped; a direct call's is left as it
\* was when the function ended.
WaitPoll ==
    /\ pc = "poll"
    /\ \E d \in QueryDurations, r \in BalancesResponses(<<wait.chain>>) :
        LET res == getVaultBalances(<<wait.chain>>, r)
            bal == EntryBalance(res.entries, wait.chain)
            now == wait.clock + d
        IN  IF res.err.kind # "none"
            THEN /\ wait' = [wait EXCEPT !.clock = now]
                 /\ RecoveryThrow(res.err, trace)
                 /\ UNCHANGED intent
            ELSE IF BalanceSufficient(bal, wait.requiredBalance)
            THEN IF entry = "unifiedTransfer"
                 THEN /\ wait' = NoWait
                      /\ BeginBurnIntent(trace \o <<"waitForGatewayBalance:return">>)
                 ELSE /\ wait' = [wait EXCEPT !.clock = now, !.balance = bal]
                      /\ Resolve(trace \o <<"waitForGatewayBalance:return">>)
                      /\ UNCHANGED intent
            ELSE IF TimedOut(now, wait.timeoutMs)
            THEN /\ wait' = [wait EXCEPT !.clock = now, !.balance = bal,
                                          !.elapsed = now]
                 /\ RecoveryThrow(Err("Timeout", 0, "", wait.chain, "none", bal,
                                      "undefined"), trace)
                 /\ UNCHANGED intent
            ELSE /\ wait' = [wait EXCEPT !.clock = now, !.balance = bal,
                                          !.elapsed = now]
                 /\ Goto("sleep", trace \o <<"sleep">>)
                 /\ UNCHANGED intent
    /\ UNCHANGED <<entry, options, ut, dep>>

\* Faulty variant of WaitWake: the timer is set without the resolver of the
\* promise the loop awaits, which is never settled.
WaitWakeNeverSettles ==
    /\ pc = "sleep"
    /\ UNCHANGED vars

\* setTimeout(r, pollIntervalMs) fires; the loop issues the next query.
WaitWake ==
    /\ pc = "sleep"
    /\ \E late \in TimerLateness :
        wait' = [wait EXCEPT !.clock = wait.clock + wait.pollIntervalMs + late]
    /\ Goto("poll", trace \o <<"poll">>)
    /\ UNCHANGED <<entry, options, ut, dep, intent>>

\* ------------------------------------------------------- depositToGateway

\* ERC-20 balances of the wallet (smallest units): 0, 1 and 2 USDC.
WalletBalanceSamples == {0, Pow10(USDC_DECIMALS), 2 * Pow10(USDC_DECIMALS)}

\* Faulty variant of WalletInsufficient: a balance equal to the amount is refused.
WalletNotAbove(bal, amount) == bal <= amount

\* balance < amount
WalletInsufficient(bal, amount) == bal < amount

\* The outcomes of client.waitForTransactionReceipt: it resolves with the receipt
\* of a mined transaction, reverted or not, and rejects otherwise.
ReceiptResults == {"success", "reverted", "error"}

\* The top of the for loop with the locals d, up to the awaited balanceOf; past
\* the last chain the function returns: a direct call resolves, and
\* unifiedTransfer (the callee's frame dropped) calls waitForGatewayBalance.
DepositLoop(d, tr) ==
    IF d.idx <= Len(d.chains)
    THEN /\ dep' = d
         /\ Goto("balanceOf", tr \o <<"balanceOf">>)
         /\ UNCHANGED wait
    ELSE IF entry = "unifiedTransfer"
    THEN /\ dep' = NoDep
         /\ WaitCall(ut.sourceChain, ut.required, <<30000>>, <<25 * 60 * 1000>>,
                     tr \o <<"depositToGateway:return">>)
    ELSE /\ dep' = d
         /\ Resolve(tr \o <<"depositToGateway:return">>)
         /\ UNCHANGED wait

\* The call depositToGateway(chains, amount, silent).
DepositCall(chains, amount, tr) ==
    DepositLoop([chains |-> chains, amount |-> amount, idx |-> 1, balance |-> 0,
                 approved |-> 0, deposited |-> 0, receipts |-> <<>>],
                tr \o <<"depositToGateway">>)

DepositToGatewayStart ==
    /\ entry = "depositToGateway"
    /\ pc = "start"
    /\ DepositCall(options.chains, options.amount, trace)
    /\ UNCHANGED <<entry, options, ut, intent>>

\* usdcContract.read.balanceOf settles.
DepositBalanceOf ==
    /\ pc = "balanceOf"
    /\ \E ok \in BOOLEAN, bal \in WalletBalanceSamples :
        IF ~ok
        THEN /\ RecoveryThrow(SimpleErr("RpcError"), trace)
             /\ UNCHANGED dep
        ELSE IF WalletInsufficient(bal, dep.amount)
        THEN /\ dep' = [dep EXCEPT !.balance = bal]
             /\ RecoveryThrow(Err("InsufficientUsdc", 0, "", dep.chains[dep.idx],
                                  "none", bal, "undefined"), trace)
        ELSE /\ dep' = [dep EXCEPT !.balance = bal, !.approved = dep.amount]
             /\ Goto("approve", trace \o <<"approve">>)
    /\ UNCHANGED <<entry, options, ut, wait, intent>>

\* Faulty variant of DepositApprove: the receipt of the approval is not awaited.
DepositApproveUnawaited ==
    /\ pc = "approve"
    /\ \E ok \in BOOLEAN :
        IF ok
        THEN Goto("deposit", trace \o <<"approve:sent", "deposit">>)
        ELSE RecoveryThrow(SimpleErr("ApproveFailed"), trace)
    /\ UNCHANGED <<entry, options, ut, dep, wait, intent>>

\* usdcContract.write.approve settles: the transaction hash, or an Error, which
\* the catch logs and rethrows.
DepositApprove ==
    /\ pc = "approve"
    /\ \E ok \in BOOLEAN :
        IF ok
        THEN Goto("approveReceipt", trace \o <<"approve:sent">>)
        ELSE RecoveryThrow(SimpleErr("ApproveFailed"), trace)
    /\ UNCHANGED <<entry, options, ut, dep, wait, intent>>

DepositApproveReceipt ==
    /\ pc = "approveReceipt"
    /\ \E res \in ReceiptResults :
        IF res = "error"
        THEN /\ RecoveryThrow(SimpleErr("ReceiptFailed"), trace)
             /\ UNCHANGED dep
        ELSE /\ dep' = [dep EXCEPT !.receipts = Append(dep.receipts, res),
                                    !.deposited = dep.amount]
             /\ Goto("deposit", trace \o <<"approve:mined", "deposit">>)
    /\ UNCHANGED <<entry, options, ut, wait, intent>>

\* gatewayWallet.write.deposit settles.
DepositDeposit ==
    /\ pc = "deposit"
    /\ \E ok \in BOOLEAN :
        IF ok
        THEN Goto("depositReceipt", trace \o <<"deposit:sent">>)
        ELSE RecoveryThrow(SimpleErr("DepositFailed"), trace)
    /\ UNCHANGED <<entry, options, ut, dep, wait, intent>>

DepositReceipt ==
    /\ pc = "depositReceipt"
    /\ \E res \in ReceiptResults :
        IF res = "error"
        THEN /\ RecoveryThrow(SimpleErr("ReceiptFailed"), trace)
             /\ UNCHANGED <<dep, wait>>
        ELSE DepositLoop([dep EXCEPT !.idx = dep.idx + 1,
                                     !.receipts = Append(dep.receipts, res)],
                         trace \o <<"deposit:mined">>)
    /\ UNCHANGED <<entry, options, ut, intent>>

\* --------------------------------------------------------- unifiedTransfer

\* transfer(options) of gateway.ts: hands the three fields to unifiedTransfer and
\* returns its promise.
transfer(o) ==
    [ isEvmToArc |-> o.isEvmToArc, chainToTransfer |-> o.chainToTransfer,
      amount |-> o.amount ]

\* Faulty variant of InvalidChain: the Arc key is not refused.
InvalidChainUnknownOnly(chainToTransfer) == chainToTransfer \notin validChains

\* !validChains.includes(chainToTransfer) || chainToTransfer === ARC_CHAIN
InvalidChain(chainToTransfer) ==
    chainToTransfer \notin validChains \/ chainToTransfer = ARC_CHAIN

\* !Number.isFinite(amount) || amount <= 0
InvalidAmount(amount) == ~IsFinite(amount) \/ NonPositive(amount)

\* Faulty variant of NeedsDeposit: a balance equal to the requirement is insufficient.
NeedsDepositInclusive(available, required) == available <= required

\* available < required
NeedsDeposit(available, required) == available < required

\* balanceData?.balances?.find((b) => b.domain === domain), then
\* sourceBalance ? parseFloat(sourceBalance.balance) : 0.  The status of the
\* response is not looked at.
AvailableOf(r, domain) ==
    IF r.hasArray /\ \E i \in 1..Len(r.balances) : r.balances[i].domain = domain
    THEN LET i == CHOOSE j \in 1..Len(r.balances) :
                      /\ r.balances[j].domain = domain
                      /\ \A k \in 1..(j - 1) : r.balances[k].domain # domain
         IN r.balances[i].balance
    ELSE 0

\* The call, up to the first await: validation, the route, and the query of
\* getVaultBalances (before transfer).
UnifiedTransferStart ==
    /\ entry = "unifiedTransfer"
    /\ pc = "start"
    /\ LET o == transfer(options)
       IN  IF InvalidChain(o.chainToTransfer)
           THEN /\ Reject(Err("InvalidChain", 0, "", o.chainToTransfer, "none", 0,
                              "undefined"), trace)
                /\ UNCHANGED ut
           ELSE IF InvalidAmount(o.amount)
           THEN /\ Reject(SimpleErr("InvalidAmount"), trace)
                /\ UNCHANGED ut
           ELSE /\ ut' = [ut EXCEPT
                            !.transferValue = TransferValueOf(o.amount),
                            !.sourceChain = IF o.isEvmToArc THEN o.chainToTransfer
                                            ELSE ARC_CHAIN,
                            !.destChain = IF o.isEvmToArc THEN ARC_CHAIN
                                          ELSE o.chainToTransfer]
                /\ Goto("vaultBefore", trace \o <<"getVaultBalances">>)
    /\ UNCHANGED <<entry, options, dep, wait, intent>>

\* getVaultBalances (before transfer) settles; logWalletBalances starts.
VaultBefore ==
    /\ pc = "vaultBefore"
    /\ \E r \in BalancesResponses(<<ut.sourceChain, ut.destChain>>) :
        LET res == getVaultBalances(<<ut.sourceChain, ut.destChain>>, r)
        IN  IF res.err.kind # "none"
            THEN Reject(res.err, trace)
            ELSE Goto("walletBeforeSource", trace \o <<"getWalletBalance">>)
    /\ UNCHANGED <<entry, options, ut, dep, wait, intent>>

\* getWalletBalance(sourceChain) of logWalletBalances (before transfer) settles.
WalletBeforeSource ==
    /\ pc = "walletBeforeSource"
    /\ \E ok \in BOOLEAN :
        IF ok
        THEN Goto("walletBeforeDest", trace \o <<"getWalletBalance">>)
        ELSE Reject(SimpleErr("RpcError"), trace)
    /\ UNCHANGED <<entry, options, ut, dep, wait, intent>>

\* getWalletBalance(destChain) settles; step 1 posts its own balance query.
WalletBeforeDest ==
    /\ pc = "walletBeforeDest"
    /\ \E ok \in BOOLEAN :
        IF ok
        THEN Goto("balanceQuery", trace \o <<"balanceQuery">>)
        ELSE Reject(SimpleErr("RpcError"), trace)
    /\ UNCHANGED <<entry, options, ut, dep, wait, intent>>

\* Step 1: the balance query settles; deposit and wait, or go on to step 2.
BalanceQuery ==
    /\ pc = "balanceQuery"
    /\ \E r \in BalancesResponses(<<ut.sourceChain>>) :
        IF r.kind = "networkError"
        THEN /\ Reject(SimpleErr("FetchFailed"), trace)
             /\ UNCHANGED <<ut, dep, wait, intent>>
        ELSE IF r.kind = "invalidJson"
        THEN /\ Reject(SimpleErr("InvalidJson"), trace)
             /\ UNCHANGED <<ut, dep, wait, intent>>
        ELSE LET available == AvailableOf(r, domainId(ut.sourceChain))
                 required == RequiredOf(ut.transferValue)
             IN  /\ ut' = [ut EXCEPT !.available = available, !.required = required,
                                      !.balanceRes = r]
                 /\ IF NeedsDeposit(available, required)
                    THEN /\ DepositCall(<<ut.sourceChain>>,
                                        DepositAmountOf(required), trace)
                         /\ UNCHANGED intent
                    ELSE /\ BeginBurnIntent(trace)
                         /\ UNCHANGED <<dep, wait>>
    /\ UNCHANGED <<entry, options>>

\* The outcomes of wallet.signTypedData.
SignResults == {"signed", "error"}

\* Sampled responses of POST /v1/transfer: no response, a body that is no JSON,
\* statuses around the 2xx range, and every combination of the two fields
\* missing, empty or present.
TransferResponses ==
    { TransferResponse("networkError", 0, "", "undefined", "undefined"),
      TransferResponse("invalidJson", 200, "<html>", "undefined", "undefined"),
      TransferResponse("invalidJson", 502, "<html>", "undefined", "undefined"),
      TransferResponse("json", 400, "bad request", "undefined", "undefined"),
      TransferResponse("json", 199, "early", "0xatt", "0xopsig"),
      TransferResponse("json", 300, "redirect", "0xatt", "0xopsig"),
      TransferResponse("json", 500, "internal error", "0xatt", "0xopsig"),
      TransferResponse("json", 299, "{}", "undefined", "0xopsig") }
    \cup { TransferResponse("json", 200, "{}", a, g) :
           a \in {"undefined", "", "0xatt"}, g \in {"undefined", "", "0xopsig"} }

\* !value, for a string or undefined
Falsy(value) == value = "undefined" \/ value = ""

\* Faulty variant of IsInsufficientFunds: a revert is classified as lack of gas too.
IsInsufficientFundsOrRevert(e) == e.code \in {"INSUFFICIENT_FUNDS", "CALL_EXCEPTION"}

\* (err as { code?: string })?.code === "INSUFFICIENT_FUNDS"
IsInsufficientFunds(e) == e.code = "INSUFFICIENT_FUNDS"

\* Faulty variant of GatewayApiError: the message leaves the body out.
GatewayApiErrorWithoutBody(status, text) ==
    Err("GatewayApiError", status, "", "", "none", 0, "undefined")

\* new Error(`Gateway API error: ${response.status} ${text}`)
GatewayApiError(status, text) ==
    Err("GatewayApiError", status, text, "", "none", 0, "undefined")

\* Faulty variant of MissingAttestation: only the attestation is looked at.
MissingAttestationOnly(attestation, operatorSig) == Falsy(attestation)

\* !attestation || !operatorSig
MissingAttestation(attestation, operatorSig) ==
    Falsy(attestation) \/ Falsy(operatorSig)

\* The Error thrown for code INSUFFICIENT_FUNDS: "Insufficient native token on
\* <destChain> to pay for gas. Your burn/attestation succeeded; you need a small
\* amount of testnet native token on the destination chain to complete the mint."
InsufficientNativeToken(destChain) ==
    Err("InsufficientNativeToken", 0, "", destChain, "none", 0, "undefined")

\* Faulty variant of MintCatch: every caught Error is rethrown as it is.
MintCatchRethrowsAll(e, tr) ==
    /\ ut' = [ut EXCEPT !.caught = e]
    /\ Reject(e, tr)

\* The catch around step 4: the insufficient-gas Error replaces the caught one,
\* every other Error is rethrown as it is.
MintCatch(e, tr) ==
    /\ ut' = [ut EXCEPT !.caught = e]
    /\ IF IsInsufficientFunds(e)
       THEN Reject(InsufficientNativeToken(ut.destChain), tr)
       ELSE Reject(e, tr)

\* The error codes of a failed minter.gatewayMint(...) and of a failed
\* mintTx.wait(); "undefined" is an Error without a code.
MintSendCodes == {"INSUFFICIENT_FUNDS", "CALL_EXCEPTION", "NETWORK_ERROR", "undefined"}
MintWaitCodes == {"CALL_EXCEPTION", "NETWORK_ERROR", "undefined"}

\* The 32-byte form addressToBytes32 gives an address (CanonSpec has it
\* character by character).
Bytes32Of(address) == [bytes32 |-> address]

\* burnIntentTypedData(burnIntent).message: the intent, its eight addresses
\* converted.
burnIntentTypedData(burnIntent) ==
    [ burnIntent EXCEPT
        !.spec.sourceContract = Bytes32Of(burnIntent.spec.sourceContract),
        !.spec.destinationContract = Bytes32Of(burnIntent.spec.destinationContract),
        !.spec.sourceToken = Bytes32Of(burnIntent.spec.sourceToken),
        !.spec.destinationToken = Bytes32Of(burnIntent.spec.destinationToken),
        !.spec.sourceDepositor = Bytes32Of(burnIntent.spec.sourceDepositor),
        !.spec.destinationRecipient = Bytes32Of(burnIntent.spec.destinationRecipient),
        !.spec.sourceSigner = Bytes32Of(burnIntent.spec.sourceSigner),
        !.spec.destinationCaller = Bytes32Of(burnIntent.spec.destinationCaller) ]

\* A JSON string and a JSON number.
JsonString(s) == [json |-> "string", v |-> s]
JsonNumber(n) == [json |-> "number", v |-> n]

\* ethers.MaxUint256.toString()
MaxUint256Decimal ==
    "115792089237316195423570985008687907853269984665640564039457584007913129639935"

\* Faulty variant of Replacer: every integer goes out as a number.
ReplacerKeepsNumbers(jsType, value) ==
    IF jsType \in {"bigint", "number"} THEN JsonNumber(value) ELSE JsonString(value)

\* JSON.stringify with (_key, value) => typeof value === "bigint" ?
\* value.toString() : value, on a value of the JavaScript type jsType.
Replacer(jsType, value) ==
    IF jsType = "bigint" THEN JsonString(ToString(value))
    ELSE IF jsType = "number" THEN JsonNumber(value)
    ELSE JsonString(value)

\* The body of POST /v1/transfer: requests = [{burnIntent: typedData.message,
\* signature}], each field of the intent with the JavaScript type
\* createBurnIntent gives it (ethers.MaxUint256, MAX_FEE and transferValue are
\* bigints; version and the domain ids are numbers).
RequestBody(burnIntent, signature) ==
    LET m == burnIntentTypedData(burnIntent)
    IN << [ burnIntent |->
              [ maxBlockHeight |-> JsonString(MaxUint256Decimal),
                maxFee |-> Replacer("bigint", m.maxFee),
                spec |->
                  [ version |-> Replacer("number", m.spec.version),
                    sourceDomain |-> Replacer("number", m.spec.sourceDomain),
                    destinationDomain |-> Replacer("number", m.spec.destinationDomain),
                    sourceContract |-> Replacer("string", m.spec.sourceContract),
                    destinationContract |-> Replacer("string", m.spec.destinationContract),
                    sourceToken |-> Replacer("string", m.spec.sourceToken),
                    destinationToken |-> Replacer("string", m.spec.destinationToken),
                    sourceDepositor |-> Replacer("string", m.spec.sourceDepositor),
                    destinationRecipient |-> Replacer("string", m.spec.destinationRecipient),
                    sourceSigner |-> Replacer("string", m.spec.sourceSigner),
                    destinationCaller |-> Replacer("string", m.spec.destinationCaller),
                    value |-> Replacer("bigint", m.spec.value),
                    salt |-> Replacer("string", m.spec.salt),
                    hookData |-> Replacer("string", m.spec.hookData) ] ],
            signature |-> JsonString(signature) ] >>

\* wallet.signTypedData settles; step 3 posts the signed intent.
SignTypedData ==
    /\ pc = "signTypedData"
    /\ \E res \in SignResults :
        IF res = "error"
        THEN /\ Reject(SimpleErr("SignError"), trace)
             /\ UNCHANGED ut
        ELSE /\ ut' = [ut EXCEPT !.signature = "0xsig",
                                  !.body = RequestBody(intent, "0xsig")]
             /\ Goto("transferRequest", trace \o <<"transferRequest">>)
    /\ UNCHANGED <<entry, options, dep, wait, intent>>

\* Step 3: the attestation request settles; step 4 calls gatewayMint.
TransferRequest ==
    /\ pc = "transferRequest"
    /\ \E r \in TransferResponses :
        IF r.kind = "networkError"
        THEN /\ Reject(SimpleErr("FetchFailed"), trace)
             /\ UNCHANGED ut
        ELSE IF ~ResponseOk(r.status)
        THEN /\ ut' = [ut EXCEPT !.response = r]
             /\ Reject(GatewayApiError(r.status, r.body), trace)
        ELSE IF r.kind = "invalidJson"
        THEN /\ ut' = [ut EXCEPT !.response = r]
             /\ Reject(SimpleErr("InvalidJson"), trace)
        ELSE IF MissingAttestation(r.attestation, r.signature)
        THEN /\ ut' = [ut EXCEPT !.response = r]
             /\ Reject(SimpleErr("MissingAttestationOrSignature"), trace)
        ELSE /\ ut' = [ut EXCEPT !.response = r,
                                  !.attestation = r.attestation,
                                  !.operatorSig = r.signature]
             /\ Goto("gatewayMint", trace \o <<"gatewayMint">>)
    /\ UNCHANGED <<entry, options, dep, wait, intent>>

\* minter.gatewayMint(attestation, operatorSig) settles: the sent transaction, or
\* an Error with a code.
GatewayMint ==
    /\ pc = "gatewayMint"
    /\ \/ /\ ut' = [ut EXCEPT !.mintTx = "0xminttx"]
          /\ Goto("mintWait", trace \o <<"gatewayMint:sent">>)
       \/ \E c \in MintSendCodes :
             MintCatch(Err("MintSendError", 0, "", "", "none", 0, c), trace)
    /\ UNCHANGED <<entry, options, dep, wait, intent>>

\* mintTx.wait() settles; on success getVaultBalances (after transfer) is queried.
MintWait ==
    /\ pc = "mintWait"
    /\ \/ /\ Goto("vaultAfter",
                  trace \o <<"gatewayMint:confirmed", "getVaultBalances">>)
          /\ UNCHANGED ut
       \/ \E c \in MintWaitCodes :
             MintCatch(Err("MintWaitError", 0, "", "", "none", 0, c), trace)
    /\ UNCHANGED <<entry, options, dep, wait, intent>>

\* getVaultBalances (after transfer) settles, inside the try of step 4.
VaultAfter ==
    /\ pc = "vaultAfter"
    /\ \E r \in BalancesResponses(<<ut.sourceChain, ut.destChain>>) :
        LET res == getVaultBalances(<<ut.sourceChain, ut.destChain>>, r)
        IN  IF res.err.kind # "none"
            THEN MintCatch(res.err, trace)
            ELSE /\ Goto("walletAfterSource", trace \o <<"getWalletBalance">>)
                 /\ UNCHANGED ut
    /\ UNCHANGED <<entry, options, dep, wait, intent>>

\* getWalletBalance(sourceChain) of logWalletBalances (after transfer) settles.
WalletAfterSource ==
    /\ pc = "walletAfterSource"
    /\ \E ok \in BOOLEAN :
        IF ok
        THEN /\ Goto("walletAfterDest", trace \o <<"getWalletBalance">>)
             /\ UNCHANGED ut
        ELSE MintCatch(SimpleErr("RpcError"), trace)
    /\ UNCHANGED <<entry, options, dep, wait, intent>>

\* getWalletBalance(destChain) settles; unifiedTransfer returns.
WalletAfterDest ==
    /\ pc = "walletAfterDest"
    /\ \E ok \in BOOLEAN :
        IF ok
        THEN /\ Resolve(trace)
             /\ UNCHANGED ut
        ELSE MintCatch(SimpleErr("RpcError"), trace)
    /\ UNCHANGED <<entry, options, dep, wait, intent>>

\* ------------------------------------------------------------ specification

Next ==
    \/ UnifiedTransferStart
    \/ VaultBefore
    \/ WalletBeforeSource
    \/ WalletBeforeDest
    \/ BalanceQuery
    \/ DepositToGatewayStart
    \/ DepositBalanceOf
    \/ DepositApprove
    \/ DepositApproveReceipt
    \/ DepositDeposit
    \/ DepositReceipt
    \/ WaitForGatewayBalanceStart
    \/ WaitPoll
    \/ WaitWake
    \/ SignTypedData
    \/ TransferRequest
    \/ GatewayMint
    \/ MintWait
    \/ VaultAfter
    \/ WalletAfterSource
    \/ WalletAfterDest

Spec == Init /\ [][Next]_vars

\* ------------------------------------------------------ reading the trace

Has(tr, e) == \E i \in 1..Len(tr) : tr[i] = e

Count(tr, e) == Cardinality({i \in 1..Len(tr) : tr[i] = e})

\* The events of tr that are in S, in their order.
Proj(tr, S) == LET In(e) == e \in S IN SelectSeq(tr, In)

IsPrefix(p, q) == Len(p) <= Len(q) /\ \A i \in 1..Len(p) : p[i] = q[i]

InTransfer == entry = "unifiedTransfer"

Finished == pc = "done"

\* A request the validation is meant to accept.
ValidRequest ==
    /\ options.chainToTransfer \in validEvmChains
    /\ options.amount.kind = "finite"
    /\ options.amount.v > 0

\* Step 1 has read the balance and computed the requirement.
BalanceChecked == InTransfer /\ ut.required > 0

\* The 0.01 USDC buffer, in number units.
Buffer == OneUsdc \div 100

\* Signing, the attestation request and the mint submission.
BurnEvents == {"signTypedData", "transferRequest", "gatewayMint"}
BurnOrder == <<"signTypedData", "transferRequest", "gatewayMint">>

\* The recovery of step 1 and the building and signing of the intent.
RecoveryEvents ==
    { "depositToGateway", "depositToGateway:return", "waitForGatewayBalance",
      "waitForGatewayBalance:return", "createBurnIntent", "signTypedData" }
RecoveryOrder ==
    << "depositToGateway", "depositToGateway:return", "waitForGatewayBalance",
       "waitForGatewayBalance:return", "createBurnIntent", "signTypedData" >>

\* ------------------------------------------------------------------ claims

\* C1: for a valid request whose source vault balance is at least amount + 0.01,
\* the run signs at most once, requests the attestation at most once and submits
\* the mint at most once, never out of the order sign, request, mint; and when
\* every external call succeeded (the run resolved) it did each exactly once.
C1_OneSignOneAttestationOneMintInOrder ==
    ( /\ BalanceChecked
      /\ ValidRequest
      /\ ut.available >= options.amount.v + Buffer )
    => /\ IsPrefix(Proj(trace, BurnEvents), BurnOrder)
       /\ (Finished /\ outcome = "resolved") => Proj(trace, BurnEvents) = BurnOrder

C1_Witness ==
    /\ BalanceChecked
    /\ ValidRequest
    /\ ut.available >= options.amount.v + Buffer
    /\ Finished
    /\ outcome = "resolved"
    /\ Proj(trace, BurnEvents) = BurnOrder

C3_FailedRecoveryAborts ==
    ( /\ InTransfer
      /\ Finished
      /\ Has(trace, "depositToGateway")
      /\ ~Has(trace, "waitForGatewayBalance:return") )
    => /\ outcome = "rejected"
       /\ err.kind = "FailedToDeposit"
       /\ ~Has(trace, "createBurnIntent")
       /\ Proj(trace, BurnEvents) = <<>>

\* The wait timed out after a confirmed deposit.
C3_Witness ==
    /\ InTransfer
    /\ Finished
    /\ Has(trace, "deposit:mined")
    /\ ~Has(trace, "waitForGatewayBalance:return")
    /\ err.cause = "Timeout"

\* C4: once the attestation request is answered with a status outside 200..299
\* the run is rejected with the Gateway API error carrying that status and that
\* body, and gatewayMint is never called.
C4_NonOkAttestationIsFatal ==
    ( /\ InTransfer
      /\ ut.response.kind # "none"
      /\ ~(ut.response.status >= 200 /\ ut.response.status <= 299) )
    => /\ Finished
       /\ outcome = "rejected"
       /\ err.kind = "GatewayApiError"
       /\ err.status = ut.response.status
       /\ err.body = ut.response.body
       /\ ~Has(trace, "gatewayMint")

C4_Witness ==
    /\ InTransfer
    /\ Finished
    /\ ut.response.status = 400
    /\ err.status = 400
    /\ err.body = "bad request"

\* C5: a 2xx answer without the attestation or without the operator signature
\* ends the run rejected with no gatewayMint call, and gatewayMint is called only
\* after a 2xx answer that has both.
C5_MissingFieldsAreFatal ==
    InTransfer =>
        /\ ( /\ ut.response.kind = "json"
             /\ ut.response.status >= 200 /\ ut.response.status <= 299
             /\ \/ ut.response.attestation = "undefined"
                \/ ut.response.signature = "undefined" )
           => /\ Finished
              /\ outcome = "rejected"
              /\ ~Has(trace, "gatewayMint")
        /\ Has(trace, "gatewayMint")
           => /\ ut.response.kind = "json"
              /\ ut.response.status >= 200 /\ ut.response.status <= 299
              /\ ut.response.attestation # "undefined"
              /\ ut.response.signature # "undefined"

\* The attestation is there and the operator signature is not.
C5_Witness ==
    /\ InTransfer
    /\ Finished
    /\ ut.response.status = 200
    /\ ut.response.attestation = "0xatt"
    /\ ut.response.signature = "undefined"
    /\ outcome = "rejected"

\* C6: an Error caught in step 4 with code INSUFFICIENT_FUNDS rejects the run
\* with the insufficient-native-token Error (whose message says the
\* burn/attestation succeeded); an Error caught there with any other code, or
\* none, rejects the run with an Error that is not that one.
C6_InsufficientGasIsDistinct ==
    (InTransfer /\ ut.caught.kind # "none") =>
        /\ Finished
        /\ outcome = "rejected"
        /\ ut.caught.code = "INSUFFICIENT_FUNDS"
           => err = InsufficientNativeToken(ut.destChain)
        /\ ut.caught.code # "INSUFFICIENT_FUNDS"
           => err.kind # "InsufficientNativeToken"

C6_Witness ==
    /\ InTransfer
    /\ ut.caught.code = "INSUFFICIENT_FUNDS"
    /\ err.kind = "InsufficientNativeToken"

\* C7 as stated: a mint that reverts and a mint that cannot be sent for lack of
\* gas are both reported as the distinct Error.
C7_Original ==
    ( /\ InTransfer
      /\ ut.caught.kind \in {"MintSendError", "MintWaitError"}
      /\ ut.caught.code \in {"INSUFFICIENT_FUNDS", "CALL_EXCEPTION"} )
    => err.kind = "InsufficientNativeToken"

\* C7 amended: of the destination-execution errors only the lack of gas is
\* reported as the distinct Error; a reverted mint (CALL_EXCEPTION, from
\* gatewayMint or from mintTx.wait) rejects the run with the caught Error itself.
C7_OnlyLackOfGasIsDistinct ==
    ( /\ InTransfer
      /\ ut.caught.kind \in {"MintSendError", "MintWaitError"} )
    => /\ Has(trace, "gatewayMint")
       /\ outcome = "rejected"
       /\ ut.caught.code = "INSUFFICIENT_FUNDS" => err.kind = "InsufficientNativeToken"
       /\ ut.caught.code = "CALL_EXCEPTION" => err = ut.caught

\* The mint transaction was sent and reverted.
C7_Witness ==
    /\ InTransfer
    /\ ut.caught.kind = "MintWaitError"
    /\ ut.caught.code = "CALL_EXCEPTION"
    /\ err = ut.caught

\* C8 as stated: a finished run resolved exactly when its mint was confirmed.
C8_ResolvesIffMintConfirmed ==
    (InTransfer /\ Finished) =>
        (outcome = "resolved" <=> Has(trace, "gatewayMint:confirmed"))

\* C9: a request with an unknown chain key, with the Arc key, or with an amount
\* that is not a finite positive number is rejected by the first step of the
\* run, which has then made no external call at all.
C9_InvalidRequestRejectedFirst ==
    ( /\ InTransfer
      /\ \/ options.chainToTransfer \notin validChains
         \/ options.chainToTransfer = "arcTestnet"
         \/ options.amount.kind # "finite"
         \/ options.amount.v <= 0 )
    => /\ trace = <<>>
       /\ pc \in {"start", "done"}
       /\ Finished => outcome = "rejected"

\* Arc as the chain of an Arc -> EVM request.
C9_Witness ==
    /\ InTransfer
    /\ options.chainToTransfer = "arcTestnet"
    /\ ~options.isEvmToArc
    /\ Finished
    /\ outcome = "rejected"
    /\ trace = <<>>

\* C10: while waitForGatewayBalance is in its loop the balance of the last poll
\* is below the threshold; a direct call whose last poll saw the threshold
\* reached has resolved, and that poll is the last thing it did: no sleep and no
\* poll follow it.
C10_ReturnsAtFirstSufficientPoll ==
    /\ pc \in {"poll", "sleep"} => wait.balance < wait.requiredBalance
    /\ ( /\ entry = "waitForGatewayBalance"
         /\ Has(trace, "poll")
         /\ wait.balance >= wait.requiredBalance )
       => /\ Finished
          /\ outcome = "resolved"
          /\ SubSeq(trace, Len(trace) - 1, Len(trace))
               = <<"poll", "waitForGatewayBalance:return">>

\* Threshold 1.01: the first poll saw less, the second 1.02.
C10_Witness ==
    /\ entry = "waitForGatewayBalance"
    /\ Finished
    /\ outcome = "resolved"
    /\ wait.requiredBalance = Cents(101)
    /\ wait.balance = Cents(102)
    /\ Count(trace, "poll") = 2
    /\ Count(trace, "sleep") = 1

InWaiter == entry = "waitForGatewayBalance"

BadAttestationAnswer ==
    /\ ut.response.kind # "none"
    /\ \/ ~(ut.response.status >= 200 /\ ut.response.status <= 299)
       \/ ut.response.kind = "invalidJson"
       \/ ut.response.attestation \in {"undefined", ""}
       \/ ut.response.signature \in {"undefined", ""}

OnChainSends == {"approve:sent", "deposit:sent", "gatewayMint:sent"}

\* C12 as stated: a run that failed on the answer to the attestation request
\* has sent no approve, deposit or mint transaction.
C12_Original ==
    (InTransfer /\ Finished /\ BadAttestationAnswer)
    => Proj(trace, OnChainSends) = <<>>

\* C12 amended: a run whose attestation request was answered badly is rejected
\* and has called gatewayMint never; it has sent an approve and a deposit
\* transaction, both confirmed, exactly when the balance it read was below the
\* requirement (the recovery of step 1 ran), and none otherwise.
C12_BadAnswerMeansNoMintButMaybeDeposit ==
    (InTransfer /\ BadAttestationAnswer)
    => /\ Finished
       /\ outcome = "rejected"
       /\ ~Has(trace, "gatewayMint")
       /\ Proj(trace, OnChainSends) =
            IF ut.available < ut.required
            THEN <<"approve:sent", "deposit:sent">>
            ELSE <<>>
       /\ Has(trace, "deposit:mined") <=> ut.available < ut.required

\* The deposit was confirmed, the balance credited, and then the service
\* answered 500.
C12_Witness ==
    /\ InTransfer
    /\ Finished
    /\ ut.response.status = 500
    /\ err.kind = "GatewayApiError"
    /\ Has(trace, "deposit:mined")
    /\ Has(trace, "waitForGatewayBalance:return")

\* The balance query of step 1 was answered with a failure: a status outside
\* 200..299, or a body without a balances array.
BalanceQueryFailed ==
    /\ ut.balanceRes.kind = "json"
    /\ \/ ~(ut.balanceRes.status >= 200 /\ ut.balanceRes.status <= 299)
       \/ ~ut.balanceRes.hasArray

\* C13: a failure of an intermediate step of unifiedTransfer ends the run
\* rejected, at that step: a failed answer to the balance query of step 1, with
\* no deposit started and no intent built on a balance of 0; a bad answer to the
\* attestation request; an Error caught in step 4.
C13_FailuresPropagate ==
    InTransfer =>
        /\ BalanceQueryFailed
           => /\ Finished
              /\ outcome = "rejected"
              /\ ~Has(trace, "depositToGateway")
              /\ ~Has(trace, "createBurnIntent")
        /\ BadAttestationAnswer => (Finished /\ outcome = "rejected")
        /\ ut.caught.kind # "none" => (Finished /\ outcome = "rejected")

\* ------------------------------------------- two concurrent unifiedTransfer
\*
\* RaceSpec: the POST /transfer handler serves two requests of the same
\* depositor for the same source chain, and their calls of unifiedTransfer
\* interleave at the awaits.  Under RaceSpec every variable holds one value per
\* run (a function over Runs) and trace holds the events of both runs in the
\* order they happened, each tagged with its run.  The code keeps no state
\* between calls, so a step of a run reads and writes that run's locals only.
\* The read-only logging before step 1, the recovery of step 1 and step 4 are
\* taken as one step each; Spec has them await by await.

Runs == {1, 2}

\* 0 (refused), 0.5 and 1 USDC from an EVM chain to Arc.
RaceRequests ==
    [isEvmToArc : {TRUE}, chainToTransfer : {"baseSepolia"},
     amount : {Num(0), Num(OneUsdc \div 2), Num(OneUsdc)}]

\* Answers of the attestation service to the two requests.
RaceTransferResponses ==
    { TransferResponse("json", 400, "bad request", "undefined", "undefined"),
      TransferResponse("json", 200, "{}", "0xatt", "0xopsig") }

RaceInit ==
    /\ entry = [i \in Runs |-> "unifiedTransfer"]
    /\ options \in [Runs -> RaceRequests]
    /\ pc = [i \in Runs |-> "start"]
    /\ outcome = [i \in Runs |-> "pending"]
    /\ err = [i \in Runs |-> NoErr]
    /\ ut = [i \in Runs |-> NoUt]
    /\ dep = [i \in Runs |-> NoDep]
    /\ wait = [i \in Runs |-> NoWait]
    /\ intent = [i \in Runs |-> NoIntent]
    /\ trace = <<>>

\* The events evs of run i, appended to the common trace.
RaceEvents(i, evs) == trace \o [k \in 1..Len(evs) |-> [run |-> i, event |-> evs[k]]]

RaceGoto(i, p, evs) ==
    /\ pc' = [pc EXCEPT ![i] = p]
    /\ trace' = RaceEvents(i, evs)
    /\ UNCHANGED <<outcome, err>>

RaceResolve(i, evs) ==
    /\ pc' = [pc EXCEPT ![i] = "done"]
    /\ outcome' = [outcome EXCEPT ![i] = "resolved"]
    /\ trace' = RaceEvents(i, evs)
    /\ UNCHANGED err

RaceReject(i, e) ==
    /\ pc' = [pc EXCEPT ![i] = "done"]
    /\ outcome' = [outcome EXCEPT ![i] = "rejected"]
    /\ err' = [err EXCEPT ![i] = e]
    /\ UNCHANGED trace

\* unifiedTransfer up to its first await: validation and the route.
RaceStart(i) ==
    /\ pc[i] = "start"
    /\ LET o == transfer(options[i])
       IN  IF InvalidChain(o.chainToTransfer) \/ InvalidAmount(o.amount)
           THEN /\ RaceReject(i, SimpleErr("InvalidAmount"))
                /\ UNCHANGED ut
           ELSE /\ ut' = [ut EXCEPT
                            ![i].transferValue = TransferValueOf(o.amount),
                            ![i].sourceChain = IF o.isEvmToArc THEN o.chainToTransfer
                                               ELSE ARC_CHAIN,
                            ![i].destChain = IF o.isEvmToArc THEN ARC_CHAIN
                                             ELSE o.chainToTransfer]
                /\ RaceGoto(i, "logBefore", <<"getVaultBalances">>)
    /\ UNCHANGED <<entry, options, dep, wait, intent>>

\* getVaultBalances and logWalletBalances (before transfer) settle; step 1 posts
\* its balance query.
RaceLogBefore(i) ==
    /\ pc[i] = "logBefore"
    /\ \E ok \in BOOLEAN :
        IF ok
        THEN RaceGoto(i, "balanceQuery", <<"balanceQuery">>)
        ELSE RaceReject(i, SimpleErr("FetchFailed"))
    /\ UNCHANGED <<entry, options, ut, dep, wait, intent>>

\* Step 1: the balance query settles; start the recovery, or build and sign.
RaceBalanceQuery(i) ==
    /\ pc[i] = "balanceQuery"
    /\ \E b \in BalanceSamples, salt \in Salts :
        LET r == BalancesResponse("json", 200, TRUE,
                   <<[domain |-> domainId(ut[i].sourceChain), balance |-> b]>>)
            available == AvailableOf(r, domainId(ut[i].sourceChain))
            required == RequiredOf(ut[i].transferValue)
        IN  /\ ut' = [ut EXCEPT ![i].available = available,
                                ![i].required = required,
                                ![i].balanceRes = r]
            /\ IF NeedsDeposit(available, required)
               THEN /\ RaceGoto(i, "recovery", <<"balance:observed", "depositToGateway">>)
                    /\ UNCHANGED intent
               ELSE /\ intent' = [intent EXCEPT ![i] =
                          createBurnIntent(ut[i].sourceChain, ut[i].destChain,
                                           ut[i].transferValue, account, <<>>, salt)]
                    /\ RaceGoto(i, "signTypedData",
                                <<"balance:observed", "createBurnIntent", "signTypedData">>)
    /\ UNCHANGED <<entry, options, dep, wait>>

\* depositToGateway and waitForGatewayBalance both returned, or one threw.
RaceRecovery(i) ==
    /\ pc[i] = "recovery"
    /\ \E ok \in BOOLEAN, salt \in Salts :
        IF ok
        THEN /\ intent' = [intent EXCEPT ![i] =
                   createBurnIntent(ut[i].sourceChain, ut[i].destChain,
                                    ut[i].transferValue, account, <<>>, salt)]
             /\ RaceGoto(i, "signTypedData",
                         << "depositToGateway:return", "waitForGatewayBalance",
                            "waitForGatewayBalance:return", "createBurnIntent",
                            "signTypedData" >>)
        ELSE /\ RaceReject(i, Err("FailedToDeposit", 0, "", ut[i].sourceChain,
                                  "Timeout", 0, "undefined"))
             /\ UNCHANGED intent
    /\ UNCHANGED <<entry, options, ut, dep, wait>>

\* wallet.signTypedData settles; step 3 posts the signed intent.
RaceSignTypedData(i) ==
    /\ pc[i] = "signTypedData"
    /\ \E res \in SignResults :
        IF res = "error"
        THEN /\ RaceReject(i, SimpleErr("SignError"))
             /\ UNCHANGED ut
        ELSE /\ ut' = [ut EXCEPT ![i].signature = "0xsig"]
             /\ RaceGoto(i, "transferRequest", <<"transferRequest">>)
    /\ UNCHANGED <<entry, options, dep, wait, intent>>

\* Step 3: the attestation request settles; step 4 calls gatewayMint.
RaceTransferRequest(i) ==
    /\ pc[i] = "transferRequest"
    /\ \E r \in RaceTransferResponses :
        /\ ut' = [ut EXCEPT ![i].response = r]
        /\ IF ~ResponseOk(r.status)
           THEN RaceReject(i, GatewayApiError(r.status, r.body))
           ELSE IF MissingAttestation(r.attestation, r.signature)
           THEN RaceReject(i, SimpleErr("MissingAttestationOrSignature"))
           ELSE RaceGoto(i, "gatewayMint", <<"gatewayMint">>)
    /\ UNCHANGED <<entry, options, dep, wait, intent>>

\* Step 4 ends: the mint was confirmed and logged, or an Error was caught.
RaceMint(i) ==
    /\ pc[i] = "gatewayMint"
    /\ \E ok \in BOOLEAN :
        IF ok
        THEN RaceResolve(i, <<"gatewayMint:sent", "gatewayMint:confirmed">>)
        ELSE RaceReject(i, InsufficientNativeToken(ut[i].destChain))
    /\ UNCHANGED <<entry, options, ut, dep, wait, intent>>

RaceNext ==
    \E i \in Runs :
        \/ RaceStart(i)
        \/ RaceLogBefore(i)
        \/ RaceBalanceQuery(i)
        \/ RaceRecovery(i)
        \/ RaceSignTypedData(i)
        \/ RaceTransferRequest(i)
        \/ RaceMint(i)

RaceSpec == RaceInit /\ [][RaceNext]_vars

\* The places in the common trace where run i did event e.
RacePlaces(i, e) == {k \in 1..Len(trace) : trace[k] = [run |-> i, event |-> e]}

RaceHas(i, e) == RacePlaces(i, e) # {}

\* C14: nothing stands between concurrent runs.  Whatever the other run has
\* done, a run that has read its balance goes into the deposit path exactly when
\* the balance it read itself is below its own requirement, and otherwise has
\* built and signed its intent at once; what the other run observed, signed or
\* submitted plays no part.  (C14_Witness is the race this leaves open.)
C14_EachRunDecidesOnItsOwnObservation ==
    \A i \in Runs :
        ut[i].required > 0 =>
            /\ RaceHas(i, "depositToGateway") <=> ut[i].available < ut[i].required
            /\ ut[i].available >= ut[i].required
               => /\ RaceHas(i, "signTypedData")
                  /\ intent[i].spec.value = ut[i].transferValue

\* Both runs read the same balance before either submitted its intent; it
\* covers the requirement of each and not the two amounts together; neither
\* called depositToGateway; both signed and submitted.
C14_Witness ==
    /\ ut[1].required > 0
    /\ ut[2].required > 0
    /\ ut[1].available = ut[2].available
    /\ ut[1].available >= ut[1].required
    /\ ut[2].available >= ut[2].required
    /\ ut[1].available < FormatUnits(ut[1].transferValue + ut[2].transferValue)
    /\ \A i \in Runs :
        /\ ~RaceHas(i, "depositToGateway")
        /\ RaceHas(i, "signTypedData")
        /\ RaceHas(i, "transferRequest")
        /\ \A j \in Runs :
            \A k \in RacePlaces(i, "balance:observed"),
               m \in RacePlaces(j, "transferRequest") : k < m

\* C15: once a run has signed, the value of its intent is round(amount * 10^6):
\* the integer v with v - 1/2 <= amount * 10^6 < v + 1/2 (amount in units of
\* 1/SubUnits smallest units); 1 gives 1000000 and 0.5 gives 500000.  The intent
\* is not touched between its signing and its submission.
C15_ValueIsRoundedAmount ==
    (InTransfer /\ Has(trace, "signTypedData")) =>
        /\ 2 * (options.amount.v - intent.spec.value * SubUnits) >= -SubUnits
        /\ 2 * (options.amount.v - intent.spec.value * SubUnits) < SubUnits
        /\ options.amount = Num(OneUsdc) => intent.spec.value = 1000000
        /\ options.amount = Num(OneUsdc \div 2) => intent.spec.value = 500000

\* 1.0000006 USDC, submitted as 1000001.
C15_Witness ==
    /\ InTransfer
    /\ Has(trace, "transferRequest")
    /\ options.amount = Num(OneUsdc + 6)
    /\ intent.spec.value = 1000001

\* C16: in every intent a run has built the two domains differ, the two chains
\* differ, and exactly one of the chains is arcTestnet (domain 26): the
\* destination when isEvmToArc, the source otherwise, the other one being the
\* chain of the request.
C16_ExactlyOneEndIsArc ==
    (InTransfer /\ Has(trace, "createBurnIntent")) =>
        /\ intent.spec.sourceDomain # intent.spec.destinationDomain
        /\ ut.sourceChain # ut.destChain
        /\ (ut.sourceChain = "arcTestnet") # (ut.destChain = "arcTestnet")
        /\ intent.spec.sourceDomain = domainId(ut.sourceChain)
        /\ intent.spec.destinationDomain = domainId(ut.destChain)
        /\ IF options.isEvmToArc
           THEN /\ ut.sourceChain = options.chainToTransfer
                /\ ut.destChain = "arcTestnet"
                /\ intent.spec.destinationDomain = 26
           ELSE /\ ut.sourceChain = "arcTestnet"
                /\ ut.destChain = options.chainToTransfer
                /\ intent.spec.sourceDomain = 26

\* Arc to Sepolia (domain 0).
C16_Witness ==
    /\ InTransfer
    /\ Has(trace, "createBurnIntent")
    /\ ~options.isEvmToArc
    /\ options.chainToTransfer = "sepolia"
    /\ intent.spec.sourceDomain = 26
    /\ intent.spec.destinationDomain = 0

\* ------------------------------------------------------- addressToBytes32
\*
\* CanonSpec: addressToBytes32 applied to an address, and then to its own
\* result.  A string is the sequence of its characters.  Under CanonSpec options
\* is the address and trace the calls made so far, each with its argument and
\* what it returned.

LowerHex == <<"0", "1", "2", "3", "4", "5", "6", "7", "8", "9",
              "a", "b", "c", "d", "e", "f">>
UpperHex == <<"0", "1", "2", "3", "4", "5", "6", "7", "8", "9",
              "A", "B", "C", "D", "E", "F">>

IsHexChar(c) == \E k \in 1..16 : LowerHex[k] = c \/ UpperHex[k] = c

HexValue(c) == (CHOOSE k \in 1..16 : LowerHex[k] = c \/ UpperHex[k] = c) - 1

\* String.prototype.toLowerCase, on the characters an address can hold.
ToLowerCase(s) ==
    [i \in 1..Len(s) |->
        IF s[i] = "X" THEN "x"
        ELSE IF IsHexChar(s[i]) THEN LowerHex[HexValue(s[i]) + 1]
        ELSE s[i]]

\* ethers.getBytes accepts /^0x([0-9a-f][0-9a-f])*$/i.
IsBytesLike(s) ==
    /\ Len(s) >= 2
    /\ s[1] = "0"
    /\ s[2] \in {"x", "X"}
    /\ Len(s) % 2 = 0
    /\ \A i \in 3..Len(s) : IsHexChar(s[i])

GetBytes(s) ==
    [i \in 1..((Len(s) - 2) \div 2) |->
        16 * HexValue(s[2 * i + 1]) + HexValue(s[2 * i + 2])]

\* ethers.hexlify: two lower-case digits for each byte.
Hexlify(bytes) ==
    <<"0", "x">> \o
    [i \in 1..(2 * Len(bytes)) |->
        IF i % 2 = 1 THEN LowerHex[(bytes[(i + 1) \div 2] \div 16) + 1]
        ELSE LowerHex[(bytes[i \div 2] % 16) + 1]]

Thrown == [ok |-> FALSE, value |-> <<>>]
Returned(v) == [ok |-> TRUE, value |-> v]

\* Faulty variant of ZeroPadValue: the zeros are put after the data.
ZeroPadBytes(data, length) ==
    IF ~IsBytesLike(data) \/ (Len(data) - 2) \div 2 > length
    THEN Thrown
    ELSE LET bytes == GetBytes(data)
         IN Returned(Hexlify(bytes \o [i \in 1..(length - Len(bytes)) |-> 0]))

\* ethers.zeroPadValue(data, length): throws on data that is no hex string or
\* is longer than length bytes; else the bytes, zeros put before them.
ZeroPadValue(data, length) ==
    IF ~IsBytesLike(data) \/ (Len(data) - 2) \div 2 > length
    THEN Thrown
    ELSE LET bytes == GetBytes(data)
         IN Returned(Hexlify([i \in 1..(length - Len(bytes)) |-> 0] \o bytes))

addressToBytes32(address) == ZeroPadValue(ToLowerCase(address), 32)

\* The last 37 characters of the addresses tried (of the USDC of Sepolia).
AddressTail ==
    << "4", "B", "1", "9", "6", "C", "b", "0", "C", "7", "B", "0", "1", "d", "7",
       "4", "3", "F", "b", "c", "6", "1", "1", "6", "a", "9", "0", "2", "3", "7",
       "9", "C", "7", "2", "3", "8", "0" >>

\* 20-byte addresses in mixed case: every choice of the first three digits.
AddressSamples ==
    { <<"0", "x", a, b, c>> \o AddressTail : a, b, c \in {"0", "1", "c", "C", "7", "F"} }

CanonInit ==
    /\ entry = "addressToBytes32"
    /\ options \in AddressSamples
    /\ pc = "start"
    /\ outcome = "pending"
    /\ err = NoErr
    /\ ut = NoUt
    /\ dep = NoDep
    /\ wait = NoWait
    /\ intent = NoIntent
    /\ trace = <<>>

\* One call: the argument and the result go to the trace.
CanonCall(arg, p) ==
    LET r == addressToBytes32(arg)
    IN  /\ trace' = Append(trace, [arg |-> arg, ret |-> r])
        /\ pc' = IF r.ok THEN p ELSE "done"
        /\ outcome' = IF ~r.ok THEN "rejected"
                      ELSE IF p = "done" THEN "resolved" ELSE outcome
        /\ UNCHANGED <<entry, options, err, ut, dep, wait, intent>>

\* addressToBytes32(address)
CanonOnce ==
    /\ pc = "start"
    /\ CanonCall(options, "once")

\* addressToBytes32 of the hex string the first call returned
CanonTwice ==
    /\ pc = "once"
    /\ CanonCall(trace[1].ret.value, "done")

CanonNext == CanonOnce \/ CanonTwice

CanonSpec == CanonInit /\ [][CanonNext]_vars

\* C17: every call returned "0x" and 64 digits (32 bytes), none of them an
\* upper-case letter; the first call returned 24 zeros and then the 40 digits
\* of the address, each with the value it has in the address; the call on that
\* result returned the same string.
C17_CanonicalAndIdempotent ==
    /\ \A n \in 1..Len(trace) :
        LET v == trace[n].ret.value
        IN  /\ trace[n].ret.ok
            /\ Len(v) = 2 + 2 * 32
            /\ v[1] = "0" /\ v[2] = "x"
            /\ \A i \in 3..Len(v) : \E k \in 1..16 : LowerHex[k] = v[i]
    /\ Len(trace) >= 1
       => LET v == trace[1].ret.value
          IN  /\ \A i \in 3..26 : v[i] = "0"
              /\ \A i \in 1..40 :
                    \E k \in 1..16 :
                        /\ v[26 + i] = LowerHex[k]
                        /\ options[2 + i] \in {LowerHex[k], UpperHex[k]}
    /\ Len(trace) = 2
       => /\ trace[2].arg = trace[1].ret.value
          /\ trace[2].ret = trace[1].ret

\* 0xC7F4... canonicalized twice.
C17_Witness ==
    /\ entry = "addressToBytes32"
    /\ Len(trace) = 2
    /\ options[3] = "C"
    /\ options[5] = "F"
    /\ trace[2].ret.value[27] = "c"
    /\ trace[2].ret.value[29] = "f"

\* depositToGateway threw its insufficient-balance Error (in unifiedTransfer the
\* catch of step 1 wraps it).
InsufficientUsdcThrown == err.kind = "InsufficientUsdc" \/ err.cause = "InsufficientUsdc"

\* The chains of the batch before the current one.
ChainsDone == dep.idx - 1

\* C19: when depositToGateway has thrown for a wallet balance below the amount,
\* the balance read for the current chain is below the amount, the call has
\* ended rejected, and the read is the last thing it did: approve and deposit
\* were called once for each chain before this one and not for this one.  And
\* approve is never called on a chain whose balance was read below the amount.
C19_InsufficientWalletSendsNothing ==
    /\ InsufficientUsdcThrown
       => /\ Finished
          /\ outcome = "rejected"
          /\ dep.balance < dep.amount
          /\ trace[Len(trace)] = "balanceOf"
          /\ Count(trace, "balanceOf") = ChainsDone + 1
          /\ Count(trace, "approve") = ChainsDone
          /\ Count(trace, "deposit") = ChainsDone
    /\ pc \in {"approve", "approveReceipt", "deposit", "depositReceipt"}
       => dep.balance >= dep.amount

\* The second chain of a batch of two has too little; the first was deposited.
C19_Witness ==
    /\ entry = "depositToGateway"
    /\ err.kind = "InsufficientUsdc"
    /\ dep.idx = 2
    /\ dep.balance = 0
    /\ Count(trace, "deposit:mined") = 1

\* What depositToGateway does on one chain, in the order of the code.
DepositCycle ==
    << "balanceOf", "approve", "approve:sent", "approve:mined",
       "deposit", "deposit:sent", "deposit:mined" >>

DepositEvents == {DepositCycle[k] : k \in 1..Len(DepositCycle)}

\* Transactions sent and not yet confirmed.
InFlight ==
    (Count(trace, "approve:sent") - Count(trace, "approve:mined"))
    + (Count(trace, "deposit:sent") - Count(trace, "deposit:mined"))

\* C20: the calls of depositToGateway go round one cycle per chain, read,
\* approve sent, approve confirmed, deposit sent, deposit confirmed, and a cycle
\* starts only when the one before is complete; so deposit is called only after
\* the receipt of the approval came, the next chain is read only after the
\* receipt of the deposit came, and at most one transaction is ever in flight.
\* deposit is called with the amount approve was called with.
C20_ApproveThenDepositChainByChain ==
    entry \in {"depositToGateway", "unifiedTransfer"} =>
        /\ LET p == Proj(trace, DepositEvents)
           IN \A k \in 1..Len(p) : p[k] = DepositCycle[((k - 1) % Len(DepositCycle)) + 1]
        /\ InFlight \in {0, 1}
        /\ pc \in {"deposit", "depositReceipt"}
           => /\ dep.deposited = dep.approved
              /\ dep.deposited = dep.amount
              /\ dep.amount > 0

\* A batch of two chains, both deposited.
C20_Witness ==
    /\ entry = "depositToGateway"
    /\ Finished
    /\ outcome = "resolved"
    /\ Len(dep.chains) = 2
    /\ Count(trace, "approve:mined") = 2
    /\ Count(trace, "deposit:mined") = 2

\* C21: in a call of depositToGateway a failure on a chain ends the call
\* rejected with nothing done after it.  A transaction of the batch that was
\* mined reverted is the last thing the call did, and the call is rejected; a
\* rejected call has read the balance of no chain after the current one, and the
\* chains before the current one have their deposits confirmed.
C21_FailureStopsTheBatch ==
    entry = "depositToGateway" =>
        /\ (\E k \in 1..Len(dep.receipts) : dep.receipts[k] = "reverted")
           => /\ Finished
              /\ outcome = "rejected"
              /\ dep.receipts[Len(dep.receipts)] = "reverted"
              /\ trace[Len(trace)] \in {"approve:mined", "deposit:mined"}
        /\ (Finished /\ outcome = "rejected")
           => /\ dep.idx <= Len(dep.chains)
              /\ Count(trace, "balanceOf") = dep.idx
              /\ Count(trace, "deposit:mined") = dep.idx - 1

\* The attestation request has been posted.
Posted == InTransfer /\ Has(trace, "transferRequest")

\* C22 as stated: all six integer fields of the posted intent are JSON strings.
C22_Original ==
    Posted =>
        LET b == ut.body[1].burnIntent
        IN  /\ b.maxBlockHeight.json = "string"
            /\ b.maxFee.json = "string"
            /\ b.spec.value.json = "string"
            /\ b.spec.version.json = "string"
            /\ b.spec.sourceDomain.json = "string"
            /\ b.spec.destinationDomain.json = "string"

\* C22 amended: the body is a list of one {burnIntent, signature}; the three
\* bigint fields of the intent, maxBlockHeight, maxFee and value, are JSON
\* strings holding their decimal digits; version, sourceDomain and
\* destinationDomain are JSON numbers.
C22_BigintsAsStringsNumbersAsNumbers ==
    Posted =>
        LET b == ut.body[1].burnIntent
        IN  /\ Len(ut.body) = 1
            /\ b.maxBlockHeight.json = "string"
            /\ b.maxBlockHeight.v = MaxUint256Decimal
            /\ b.maxFee.json = "string"
            /\ b.maxFee.v = "2010000"
            /\ b.spec.value.json = "string"
            /\ b.spec.value.v = ToString(ut.transferValue)
            /\ b.spec.version.json = "number"
            /\ b.spec.version.v = 1
            /\ b.spec.sourceDomain.json = "number"
            /\ b.spec.sourceDomain.v = domainId(ut.sourceChain)
            /\ b.spec.destinationDomain.json = "number"
            /\ b.spec.destinationDomain.v = domainId(ut.destChain)

\* 1 USDC from Base Sepolia (domain 6): value "1000000", sourceDomain 6.
C22_Witness ==
    /\ Posted
    /\ ut.body[1].burnIntent.spec.value.v = "1000000"
    /\ ut.body[1].burnIntent.spec.sourceDomain.v = 6
    /\ ut.body[1].burnIntent.spec.destinationDomain.v = 26

\* -------------------------------------------------- the POST /transfer handler
\*
\* HandlerSpec: one request to POST /transfer.  Under HandlerSpec options is
\* req.body, outcome and err are those of the promise transfer returned, and
\* trace holds the call of transfer and the answer sent, in order.  What
\* unifiedTransfer does inside the call is in Spec; here the call settles in one
\* step, rejected when its validation refuses the request and either way
\* otherwise.

\* The three fields of req.body, each with its typeof.
BodyFlags ==
    { [type |-> "boolean", bool |-> TRUE], [type |-> "boolean", bool |-> FALSE],
      [type |-> "string", bool |-> FALSE], [type |-> "undefined", bool |-> FALSE] }

BodyChains ==
    { [type |-> "undefined", str |-> ""], [type |-> "string", str |-> ""],
      [type |-> "string", str |-> "baseSepolia"], [type |-> "string", str |-> "sepolia"],
      [type |-> "string", str |-> "arcTestnet"],
      [type |-> "string", str |-> "unknownChain"] }

\* JSON holds no NaN; 1e999 is parsed to Infinity.
BodyAmounts ==
    { [type |-> "undefined", num |-> Num(0)], [type |-> "string", num |-> Num(OneUsdc)],
      [type |-> "number", num |-> Num(-OneUsdc)], [type |-> "number", num |-> Num(0)],
      [type |-> "number", num |-> Num(4)], [type |-> "number", num |-> Num(OneUsdc)],
      [type |-> "number", num |-> NonFiniteNum("Infinity")],
      [type |-> "number", num |-> NonFiniteNum("-Infinity")] }

RequestBodies ==
    [isEvmToArc : BodyFlags, chainToTransfer : BodyChains, amount : BodyAmounts]

\* Errors a call of transfer is rejected with; the last has an empty message.
TransferErrors ==
    { SimpleErr("GatewayApiError"), SimpleErr("FailedToDeposit"),
      SimpleErr("InsufficientNativeToken"), SimpleErr("") }

HandlerInit ==
    /\ entry = "POST /transfer"
    /\ options \in RequestBodies
    /\ pc = "start"
    /\ outcome = "pending"
    /\ err = NoErr
    /\ ut = NoUt
    /\ dep = NoDep
    /\ wait = NoWait
    /\ intent = NoIntent
    /\ trace = <<>>

\* res.status(status).json({error}), res.json({success: true}), and the call
\* transfer({isEvmToArc, chainToTransfer, amount}).
HttpError(status, error) ==
    [event |-> "response", status |-> status, success |-> FALSE, error |-> error]
HttpSuccess == [event |-> "response", status |-> 200, success |-> TRUE, error |-> ""]
TransferCalled == [event |-> "transfer", status |-> 0, success |-> FALSE, error |-> ""]

\* typeof isEvmToArc !== "boolean"
FlagInvalid(flag) == flag.type # "boolean"

\* !chainToTransfer || !VALID_CHAINS.includes(chainToTransfer)
ChainInvalid(chain) ==
    \/ chain.type = "undefined"
    \/ chain.str = ""
    \/ chain.str \notin validChains

\* Faulty variant of HandlerAmountInvalid: only the type is looked at.
HandlerAmountNotANumber(amount) == amount.type # "number"

\* typeof amount !== "number" || amount <= 0
HandlerAmountInvalid(amount) == amount.type # "number" \/ NonPositive(amount.num)

\* err?.message || "Transfer failed"
ErrorMessage(e) == IF e.kind = "" THEN "Transfer failed" ELSE e.kind

\* The handler up to its first await: the four checks, then the call.
HandlerStart ==
    /\ entry = "POST /transfer"
    /\ pc = "start"
    /\ LET answer(r) == /\ pc' = "done"
                        /\ trace' = Append(trace, r)
       IN  IF FlagInvalid(options.isEvmToArc)
           THEN answer(HttpError(400, "isEvmToArc must be a boolean."))
           ELSE IF ChainInvalid(options.chainToTransfer)
           THEN answer(HttpError(400, "Invalid chainToTransfer."))
           ELSE IF options.chainToTransfer.str = "arcTestnet"
           THEN answer(HttpError(400, "Do not pass arcTestnet as chainToTransfer."))
           ELSE IF HandlerAmountInvalid(options.amount)
           THEN answer(HttpError(400, "amount must be a positive number (USDC)."))
           ELSE /\ pc' = "transfer"
                /\ trace' = Append(trace, TransferCalled)
    /\ UNCHANGED <<entry, options, outcome, err, ut, dep, wait, intent>>

\* await transfer(...) settles; the handler answers.
HandlerTransferSettles ==
    /\ pc = "transfer"
    /\ \E ok \in BOOLEAN, e \in TransferErrors :
        LET o == transfer([ isEvmToArc |-> options.isEvmToArc.bool,
                            chainToTransfer |-> options.chainToTransfer.str,
                            amount |-> options.amount.num ])
        IN  IF InvalidChain(o.chainToTransfer)
            THEN /\ outcome' = "rejected"
                 /\ err' = SimpleErr("InvalidChain")
                 /\ trace' = Append(trace, HttpError(500, "InvalidChain"))
            ELSE IF InvalidAmount(o.amount)
            THEN /\ outcome' = "rejected"
                 /\ err' = SimpleErr("InvalidAmount")
                 /\ trace' = Append(trace, HttpError(500, "InvalidAmount"))
            ELSE IF ok
            THEN /\ outcome' = "resolved"
                 /\ err' = err
                 /\ trace' = Append(trace, HttpSuccess)
            ELSE /\ outcome' = "rejected"
                 /\ err' = e
                 /\ trace' = Append(trace, HttpError(500, ErrorMessage(e)))
    /\ pc' = "done"
    /\ UNCHANGED <<entry, options, ut, dep, wait, intent>>

HandlerNext == HandlerStart \/ HandlerTransferSettles

HandlerSpec == HandlerInit /\ [][HandlerNext]_vars

\* ------------------------------------------------------------------ C23

HandlerAnswer == trace[Len(trace)]

TransferWasCalled == \E i \in 1..Len(trace) : trace[i].event = "transfer"

\* C23: the POST /transfer handler calls transfer only when isEvmToArc is a
\* boolean, chainToTransfer is a known chain other than "arcTestnet" and
\* amount is a positive number, and otherwise answers 400 without calling
\* transfer; it answers success only when transfer resolved, and answers a 500
\* with an error message whenever transfer rejected.
C23_HandlerValidatesThenReportsTransfer ==
    entry = "POST /transfer" =>
        /\ TransferWasCalled =>
            /\ options.isEvmToArc.type = "boolean"
            /\ options.chainToTransfer.type = "string"
            /\ options.chainToTransfer.str \in validChains \ {"arcTestnet"}
            /\ options.amount.type = "number"
            /\ ~NonPositive(options.amount.num)
        /\ (pc = "done" /\ ~TransferWasCalled) =>
            /\ Len(trace) = 1
            /\ HandlerAnswer.status = 400
            /\ ~HandlerAnswer.success
        /\ (pc = "done" /\ TransferWasCalled) =>
            /\ Len(trace) = 2
            /\ outcome \in {"resolved", "rejected"}
            /\ outcome = "resolved" <=> HandlerAnswer = HttpSuccess
            /\ outcome = "rejected" =>
                /\ HandlerAnswer.status = 500
                /\ ~HandlerAnswer.success
                /\ HandlerAnswer.error # ""
        /\ \A i \in 1..Len(trace) :
            trace[i].success => (outcome = "resolved" /\ TransferWasCalled)

\* Reached: transfer was called with an infinite amount and rejected it, and
\* the handler answered 500.
C23_Witness ==
    /\ entry = "POST /transfer"
    /\ pc = "done"
    /\ TransferWasCalled
    /\ options.amount.num = NonFiniteNum("Infinity")
    /\ outcome = "rejected"
    /\ HandlerAnswer.status = 500

\* ------------------------------------------------------------------ C24

\* The answer to the attestation request held both fields.
AttestationReceived ==
    /\ ut.response.kind = "json"
    /\ ut.response.status >= 200
    /\ ut.response.status <= 299
    /\ ut.response.attestation \notin {"undefined", ""}
    /\ ut.response.signature \notin {"undefined", ""}

\* C24: in every run of unifiedTransfer, whichever step fails and whether or
\* not the deposit path is taken, at most one burn intent is built and signed,
\* at most one attestation request is sent and at most one mint is submitted,
\* and a mint is submitted only after the attestation request of that run was
\* answered with both the attestation and the signature.
C24_NoStepIsRetried ==
    InTransfer =>
        /\ Len(Proj(trace, {"createBurnIntent"})) <= 1
        /\ Len(Proj(trace, {"signTypedData"})) <= 1
        /\ Len(Proj(trace, {"transferRequest"})) <= 1
        /\ Len(Proj(trace, {"gatewayMint"})) <= 1
        /\ Len(Proj(trace, {"gatewayMint:sent"})) <= 1
        /\ Has(trace, "gatewayMint") =>
            /\ AttestationReceived
            /\ ut.attestation = ut.response.attestation
            /\ ut.operatorSig = ut.response.signature
            /\ Proj(trace, {"transferRequest", "gatewayMint"})
                   = <<"transferRequest", "gatewayMint">>

\* Reached: a run that went through the deposit path, submitted its one mint
\* and then failed.
C24_Witness ==
    /\ InTransfer
    /\ Finished
    /\ outcome = "rejected"
    /\ Has(trace, "deposit:mined")
    /\ Count(trace, "signTypedData") = 1
    /\ Count(trace, "transferRequest") = 1
    /\ Count(trace, "gatewayMint:sent") = 1
    /\ AttestationReceived

\* ------------------------------------------------------------------ C25

C26_SignedValueIsPositive ==
    (InTransfer /\ ValidRequest /\ Has(trace, "signTypedData")) =>
        /\ intent.spec.value \in Nat
        /\ intent.spec.value > 0
        /\ intent.spec.value = ut.transferValue

\* ------------------------------------------------------------------ C27

\* The Errors of a balance query that was answered with a status outside
\* 200..299 or without a balances array.
QueryFailures == {"GatewayApi", "NoBalancesArray"}

\* A poll of the waiter ended the call with the Error of its failed query;
\* within unifiedTransfer the catch of step 1 has wrapped it.
PollQueryFailed ==
    \/ InWaiter /\ err.kind \in QueryFailures
    \/ InTransfer /\ err.kind = "FailedToDeposit" /\ err.cause \in QueryFailures

\* C27 amended: a poll of waitForGatewayBalance whose balance query fails (a
\* status outside 200..299, or no balances array) makes the call fail with that
\* Error at once, whether or not timeoutMs has elapsed, and without a sleep or a
\* further poll; the loop never goes on after a failed query.  Within
\* unifiedTransfer this ends the run rejected after the deposit was confirmed
\* and depositToGateway returned, with no intent built and nothing signed.
C27_FailedPollEndsTheWait ==
    /\ pc \in {"poll", "sleep"} => err = NoErr
    /\ PollQueryFailed
       => /\ Finished
          /\ outcome = "rejected"
          /\ trace[Len(trace)] = "poll"
          /\ wait.elapsed < wait.timeoutMs \/ Proj(trace, {"sleep"}) = <<>>
    /\ (InTransfer /\ PollQueryFailed)
       => /\ err.chain = ut.sourceChain
          /\ Proj(trace, {"deposit:mined", "depositToGateway:return",
                          "waitForGatewayBalance"})
               = <<"deposit:mined", "depositToGateway:return",
                   "waitForGatewayBalance">>
          /\ Proj(trace, BurnEvents \cup {"createBurnIntent"}) = <<>>

\* C27 as stated: moreover the failing poll completes before timeoutMs has
\* elapsed.
C27_Original ==
    /\ C27_FailedPollEndsTheWait
    /\ PollQueryFailed => wait.clock < wait.timeoutMs

\* Reached: within unifiedTransfer, after the deposit, the first poll saw too
\* little and the second was answered with status 500, well before the timeout.
C27_Witness ==
    /\ InTransfer
    /\ Finished
    /\ err.kind = "FailedToDeposit"
    /\ err.cause = "GatewayApi"
    /\ Has(trace, "deposit:mined")
    /\ Proj(trace, {"poll", "sleep"}) = <<"poll", "sleep", "poll">>
    /\ wait.clock < wait.timeoutMs

\* ------------------------------------------------------------ termination
\*
\* FairSpec: the behaviours of Spec in which every awaited external call settles
\* and every timer fires.  A suspended call has exactly one step enabled, the
\* settling of what it awaits, so weak fairness of Next says that whatever is
\* awaited settles eventually.
FairSpec == Spec /\ WF_vars(Next)

\* ------------------------------------------------------------------ C28

\* C28: when every external call eventually returns or fails and time advances,
\* every run of unifiedTransfer and every call of waitForGatewayBalance (the
\* poll interval positive, the timeout finite) eventually ends, resolved or
\* rejected: the polling loop ends after finitely many polls, also when no poll
\* ever sees the threshold reached.
C28_EveryRunEnds ==
    (InTransfer \/ InWaiter) => <>(Finished /\ outcome \in {"resolved", "rejected"})

\* Reached: a call of the waiter that never saw the threshold reached and ended
\* with the timeout Error after three polls.
C28_Witness ==
    /\ InWaiter
    /\ wait.pollIntervalMs > 0
    /\ Finished
    /\ err.kind = "Timeout"
    /\ Proj(trace, {"poll", "sleep"}) = <<"poll", "sleep", "poll", "sleep", "poll">>

====
